---- MODULE Spec2Model ----
(***************************************************************************)
(* State-machine model of the React hooks of app/components-react/hooks    *)
(* (useVuex, useOnDestroy, useAsyncState, useStateHelper, useDebounce) and *)
(* of RecordingHistoryController.handleSelect.                             *)
(* Each hook is modelled for one component that uses it; every hook has    *)
(* its own specification (SpecAsync, SpecHelper, SpecVuex, SpecDebounce,   *)
(* and SpecRecording for the controller) over its own variables, the       *)
(* variables of the others staying idle.                                   *)
(***************************************************************************)
EXTENDS Integers, Sequences, FiniteSets, TLC

(***************************************************************************)
(* Bounds of the model.                                                    *)
(***************************************************************************)
MaxRenders == 3

MaxUserWrites == 2

MaxCycles == 2

MaxTime == 4

MaxCalls == 4

MaxMs == 2

MaxSelects == 3

\* values a state cell of useAsyncState can hold
AVals == {0, 1, 2}

\* "no value": a promise that is not settled with a value
NoVal == -1

\* the record type T of the useStateHelper component: a scalar field x and a
\* field a that is itself a record (a dictionary) with the keys k1, k2
Fields == {"x", "a"}

Keys == {"k1", "k2"}

Val == {0, 1}

\* a JavaScript value is written as a function of strings: a number n is
\* [num |-> n], a plain object is the function of its own keys
Num(n) == [num |-> n]

IsObject(v) == "num" \notin DOMAIN v

EmptyObject == [k \in {} |-> 0]

Dicts == [Keys -> Val]

FieldVals(f) == IF f = "x" THEN {Num(n) : n \in Val} ELSE Dicts

\* the values of type T
Records == {r \in [Fields -> UNION {FieldVals(f) : f \in Fields}] :
               \A f \in Fields : r[f] \in FieldVals(f)}

\* the values of type Partial<T>
Patches ==
    UNION {{q \in [D -> UNION {FieldVals(f) : f \in Fields}] :
               \A f \in D : q[f] \in FieldVals(f)} : D \in SUBSET Fields}

NoWrite == [op |-> "none"]

\* the store state: two fields, each read by one selector
StoreFields == {"a", "b"}

SVal == {0, 1}

Selectors == {"selA", "selB"}

NoWatcher == [active |-> FALSE, dirty |-> FALSE, value |-> NoVal]

\* what store.watch can hand back: a working unsubscribe function, one that
\* throws when called, or nothing
Handles == {"function", "throws", "undefined"}

\* the two call shapes of useVuex
CallShapes == {"selectorOnly", "targetSelector"}

\* the target a component passes to useVuex
Target == [kind |-> "target"]

\* the values of the upload options, and the recordings of the page
Platforms == {"youtube", "crossclip", "typestudio", "videoeditor"}

Filenames == {"rec1", "rec2"}

\* lifeTime of the notification postError pushes
WarningLifeTime == 5000

NoSelect == [op |-> "none"]

\* the delays a render passes to useDebounce (a positive number of ticks)
Delays == 1..MaxMs

\* the arguments the wrapped function is called with
DArgs == {0, 1}

NoInvocation == [cb |-> 0, args |-> NoVal]

VARIABLES
    aHasCb,         \* useAsyncState: is asyncCb supplied by the call site
    aPhase,         \* lifecycle of the component: init, rendered, mounted, unmounted
    aCell,          \* the React state cell behind useState(defaultState)
    aState,         \* `state` as returned by the last render
    aDefault,       \* the defaultState of the first render
    aIsDestroyed,   \* the `isDestroyed` local of every render, by render number
    aDestroyCb,     \* render number whose useOnDestroy callback the effect holds (0: none)
    aCbInputs,      \* the inputs asyncCb was invoked with, in order
    aInner,         \* status of the promise returned by asyncCb
    aInnerValue,    \* the value asyncCb's promise is fulfilled with
    aHandle,        \* status of `promise`, the handle returned by the hook
    aHandleValue,   \* the value the handle is fulfilled with
    aThenSets,      \* number of setState calls made by the .then callback
    aUserWrites,    \* number of calls of the returned setter by the component
    aLateResolve,   \* asyncCb's promise settled after the component unmounted
    s,              \* useStateHelper: `s` as returned by the last render
    rawState,       \* the React state cell behind useState(initializer)
    stateRef,       \* stateRef.current
    hLast,          \* the most recent write call, with the mirror it found
    hPrev,          \* the write call before it, if made since the last render
    hDirty,         \* a write call was made since the last render
    store,          \* useVuex: the state of StatefulService.store
    watcher,        \* the watcher store.watch registered for the component
    vPhase,         \* lifecycle of the component: init, rendered, mounted, unmounted
    vSelectors,     \* the selector passed on every render, by render number
    vCell,          \* the React state cell behind useState(selector)
    vState,         \* `state` as returned by the last render
    vSubs,          \* calls of store.watch by this component instance
    vUnsubs,        \* calls of unsubscribe by this component instance
    vCycle,         \* number of the component instance (mount/unmount cycle)
    vHandle,        \* what store.watch returned: function, throws, undefined
    vError,         \* an error was raised out of the effect's cleanup
    vLateSet,       \* the watcher callback called setState after the unmount
    vLateMutation,  \* the watched value was changed in the store after the unmount
    now,            \* useDebounce: the clock
    dWrappers,      \* the debounced wrapper debounce(cb, ms) built by every render
    dReturned,      \* the wrapper the last render returned (its render number)
    dInvoked,       \* the last downstream invocation: the callback and its argument
    dBurstArgs,     \* the arguments of the calls of the current burst, in order
    dBurstInv,      \* downstream invocations since the current burst began
    dLastCall,      \* the time of the most recent call of the wrapped function
    dCalls,         \* number of calls of the wrapped function so far
    twin,           \* useVuex in two components, one per call shape, side by side
    rUploading,     \* RecordingHistory: RecordingModeService.state.uploadInfo.uploading
    rHasSLID,       \* the user's auth has an slid id
    rShowSLIDModal, \* store.showSLIDModal
    rNotices,       \* the notifications pushed to NotificationsService, in order
    rUploads,       \* the uploads started on RecordingModeService, in order
    rLast           \* the most recent handleSelect call, with the state it found

asyncVars ==
    << aHasCb, aPhase, aCell, aState, aDefault, aIsDestroyed, aDestroyCb,
       aCbInputs, aInner, aInnerValue, aHandle, aHandleValue, aThenSets,
       aUserWrites, aLateResolve >>

helperVars == << s, rawState, stateRef, hLast, hPrev, hDirty >>

vuexVars ==
    << store, watcher, vPhase, vSelectors, vCell, vState, vSubs, vUnsubs,
       vCycle, vHandle, vError, vLateSet, vLateMutation >>

debounceVars ==
    << now, dWrappers, dReturned, dInvoked, dBurstArgs, dBurstInv, dLastCall,
       dCalls >>

twinVars == << twin >>

recordingVars ==
    << rUploading, rHasSLID, rShowSLIDModal, rNotices, rUploads, rLast >>

vars ==
    << asyncVars, helperVars, vuexVars, debounceVars, twinVars,
       recordingVars >>

\* the variables the actions of one hook leave alone
notAsyncVars == << helperVars, vuexVars, debounceVars, twinVars,
       recordingVars >>

notHelperVars == << asyncVars, vuexVars, debounceVars, twinVars,
       recordingVars >>

notVuexVars == << asyncVars, helperVars, debounceVars, twinVars,
       recordingVars >>

notDebounceVars == << asyncVars, helperVars, vuexVars, twinVars,
       recordingVars >>

\* the two components share the store and use none of the other variables
notTwinVars ==
    << asyncVars, helperVars, debounceVars, watcher, vPhase, vSelectors, vCell,
       vState, vSubs, vUnsubs, vCycle, vHandle, vError, vLateSet,
       vLateMutation, recordingVars >>

notRecordingVars ==
    << asyncVars, helperVars, vuexVars, debounceVars, twinVars >>

(***************************************************************************)
(* useAsyncState                                                           *)
(***************************************************************************)

\* useState's setter: React drops an update of an unmounted component
ReactSet(phase, cell, v) == IF phase = "unmounted" THEN cell ELSE v

\* a useMemo without the empty dependency list: the factory runs on every render
MemoRunsEveryRender(renderNo) == renderNo >= 1

\* useMemo(..., []): the factory runs on the first render only
MemoRuns(renderNo) == renderNo = 1

\* a .then callback that reads the `isDestroyed` of the latest render
PromiseFlagLatest(flags) == flags[Len(flags)]

\* the .then callback was created by the first render (useMemo, []), so the
\* `isDestroyed` it reads is the local of render 1
PromiseFlag(flags) == flags[1]

\* a .then chain ending in a catch that turns the rejection into null
HandleOnRejectSwallowed == "fulfilledNull"

\* asyncCb(state).then(onFulfilled) has no rejection handler: when asyncCb's
\* promise rejects, the handle rejects and onFulfilled is not run
HandleOnReject == "rejected"

\* a useOnDestroy whose effect always holds the callback of the latest render
OnDestroyCbLatest(held, renderNo) == renderNo

\* useOnDestroy: useEffect(() => cb, []) keeps the cb of the render that
\* mounted; later renders' callbacks are dropped
OnDestroyCb(held, renderNo) == IF held = 0 THEN renderNo ELSE held

AsyncInit ==
    /\ aHasCb \in BOOLEAN
    /\ aPhase = "init"
    /\ aCell = NoVal
    /\ aState = NoVal
    /\ aDefault = NoVal
    /\ aIsDestroyed = << >>
    /\ aDestroyCb = 0
    /\ aCbInputs = << >>
    /\ aInner = "none"
    /\ aInnerValue = NoVal
    /\ aHandle = "undefined"
    /\ aHandleValue = NoVal
    /\ aThenSets = 0
    /\ aUserWrites = 0
    /\ aLateResolve = FALSE

\* one render of the component: the body of useAsyncState; useOnDestroy's
\* useEffect registers its callback here, AsyncMount runs the mount effect
AsyncRender(d) ==
    /\ aPhase \in {"init", "mounted"}
    /\ Len(aIsDestroyed) < MaxRenders
    /\ LET renderNo == Len(aIsDestroyed) + 1
           first == aPhase = "init"
           cell == IF first THEN d ELSE aCell
       IN /\ aCell' = cell
          /\ aState' = cell
          /\ aDefault' = IF first THEN d ELSE aDefault
          /\ aIsDestroyed' = Append(aIsDestroyed, FALSE)
          /\ aPhase' = IF first THEN "rendered" ELSE aPhase
          /\ aDestroyCb' = OnDestroyCb(aDestroyCb, renderNo)
          /\ IF MemoRuns(renderNo) /\ aHasCb
             THEN /\ aCbInputs' = Append(aCbInputs, cell)
                  /\ aInner' = "pending"
                  /\ aHandle' = "pending"
             ELSE UNCHANGED << aCbInputs, aInner, aHandle >>
    /\ UNCHANGED << aHasCb, aInnerValue, aHandleValue, aThenSets,
                    aUserWrites, aLateResolve >>
    /\ UNCHANGED notAsyncVars

\* the mount effect of useOnDestroy runs after the first commit
AsyncMount ==
    /\ aPhase = "rendered"
    /\ aPhase' = "mounted"
    /\ UNCHANGED << aHasCb, aCell, aState, aDefault, aIsDestroyed, aDestroyCb, aCbInputs,
                    aInner, aInnerValue, aHandle, aHandleValue, aThenSets,
                    aUserWrites, aLateResolve >>
    /\ UNCHANGED notAsyncVars

\* the component calls the setter the hook returned
AsyncSetState(v) ==
    /\ aPhase \in {"rendered", "mounted", "unmounted"}
    /\ aUserWrites < MaxUserWrites
    /\ aUserWrites' = aUserWrites + 1
    /\ aCell' = ReactSet(aPhase, aCell, v)
    /\ UNCHANGED << aHasCb, aPhase, aState, aDefault, aIsDestroyed, aDestroyCb,
                    aCbInputs, aInner, aInnerValue, aHandle, aHandleValue,
                    aThenSets, aLateResolve >>
    /\ UNCHANGED notAsyncVars

\* unmount: the effect's cleanup, the held useOnDestroy callback, runs
AsyncUnmount ==
    /\ aPhase = "mounted"
    /\ aPhase' = "unmounted"
    /\ aIsDestroyed' = [aIsDestroyed EXCEPT ![aDestroyCb] = TRUE]
    /\ UNCHANGED << aHasCb, aCell, aState, aDefault, aDestroyCb, aCbInputs,
                    aInner, aInnerValue, aHandle, aHandleValue, aThenSets,
                    aUserWrites, aLateResolve >>
    /\ UNCHANGED notAsyncVars

\* the promise returned by asyncCb is fulfilled with r
AsyncCbResolve(r) ==
    /\ aInner = "pending"
    /\ aInner' = "fulfilled"
    /\ aInnerValue' = r
    /\ aLateResolve' = (aPhase = "unmounted")
    /\ UNCHANGED << aHasCb, aPhase, aCell, aState, aDefault, aIsDestroyed,
                    aDestroyCb, aCbInputs, aHandle, aHandleValue, aThenSets,
                    aUserWrites >>
    /\ UNCHANGED notAsyncVars

\* the promise returned by asyncCb is rejected
AsyncCbReject ==
    /\ aInner = "pending"
    /\ aInner' = "rejected"
    /\ aLateResolve' = (aPhase = "unmounted")
    /\ UNCHANGED << aHasCb, aPhase, aCell, aState, aDefault, aIsDestroyed,
                    aDestroyCb, aCbInputs, aInnerValue, aHandle, aHandleValue,
                    aThenSets, aUserWrites >>
    /\ UNCHANGED notAsyncVars

\* the microtask of .then(newState => ...) on a fulfilled asyncCb promise
AsyncThen ==
    /\ aInner = "fulfilled"
    /\ aHandle = "pending"
    /\ IF PromiseFlag(aIsDestroyed)
       THEN /\ aHandle' = "fulfilledNull"
            /\ UNCHANGED << aCell, aHandleValue, aThenSets >>
       ELSE /\ aCell' = ReactSet(aPhase, aCell, aInnerValue)
            /\ aThenSets' = aThenSets + 1
            /\ aHandle' = "fulfilled"
            /\ aHandleValue' = aInnerValue
    /\ UNCHANGED << aHasCb, aPhase, aState, aDefault, aIsDestroyed, aDestroyCb,
                    aCbInputs, aInner, aInnerValue, aUserWrites, aLateResolve >>
    /\ UNCHANGED notAsyncVars

\* .then with no rejection handler: the handle rejects with the same reason
AsyncThenRejected ==
    /\ aInner = "rejected"
    /\ aHandle = "pending"
    /\ aHandle' = HandleOnReject
    /\ UNCHANGED << aHasCb, aPhase, aCell, aState, aDefault, aIsDestroyed,
                    aDestroyCb, aCbInputs, aInner, aInnerValue, aHandleValue,
                    aThenSets, aUserWrites, aLateResolve >>
    /\ UNCHANGED notAsyncVars

\* useAsyncState while another hook is studied: a component not yet rendered
AsyncIdle == AsyncInit /\ aHasCb = FALSE

AsyncNext ==
    \/ \E d \in AVals : AsyncRender(d)
    \/ AsyncMount
    \/ \E v \in AVals : AsyncSetState(v)
    \/ AsyncUnmount
    \/ \E r \in AVals : AsyncCbResolve(r)
    \/ AsyncCbReject
    \/ AsyncThen
    \/ AsyncThenRejected

(***************************************************************************)
(* useStateHelper                                                          *)
(***************************************************************************)

\* { ...v }: spreading an object copies its own keys, spreading a number
\* copies nothing
Spread(v) == IF IsObject(v) THEN v ELSE EmptyObject

\* { ...base, ...patch }
SpreadMerge(base, patch) ==
    [f \in (DOMAIN Spread(base)) \cup (DOMAIN Spread(patch)) |->
        IF f \in DOMAIN Spread(patch) THEN patch[f] ELSE base[f]]

\* a setState that leaves the mirror to be refreshed by the next render
MirrorAfterSetStale(ref, newState) == ref

\* setState: stateRef.current = newState
MirrorAfterSet(ref, newState) == newState

\* an updateState that patches the value of the last render
UpdateBaseRendered(rendered, ref) == rendered

\* updateState patches stateRef.current
UpdateBase(rendered, ref) == ref

\* a setItem that replaces the dictionary by the single new entry
SetItemValueNoSpread(ref, dictionaryName, key, value) ==
    SpreadMerge(ref, dictionaryName :> (key :> value))

\* setItem: { ...stateRef.current,
\*            [dictionaryName]: { ...stateRef.current[dictionaryName], [key]: value } }
SetItemValue(ref, dictionaryName, key, value) ==
    SpreadMerge(ref, dictionaryName :> SpreadMerge(ref[dictionaryName], key :> value))

\* createBinding(state, setter)(fieldName).onChange(newVal): the setter is the
\* whole-record setState, so it is called with state patched in fieldName
BindingOnChangeValue(state, fieldName, newVal) ==
    SpreadMerge(state, fieldName :> newVal)

HelperInit ==
    /\ s \in Records
    /\ rawState = s
    /\ stateRef = s
    /\ hLast = NoWrite
    /\ hPrev = NoWrite
    /\ hDirty = FALSE

\* useStateHelper while another hook is studied
HelperIdle ==
    /\ HelperInit
    /\ s = [x |-> Num(0), a |-> [k \in Keys |-> 0]]

\* what a write call leaves in hPrev of the call before it
Remembered(w) ==
    IF w.op = "updateState" THEN w
    ELSE IF w.op = "none" THEN NoWrite ELSE [op |-> "other"]

\* a re-render: `s` is the state cell, useRef keeps the mirror
HelperRender ==
    /\ s' = rawState
    /\ hDirty' = FALSE
    /\ hPrev' = NoWrite
    /\ UNCHANGED << rawState, stateRef, hLast >>
    /\ UNCHANGED notHelperVars

\* setState(newState)
HelperSetState(newState) ==
    /\ stateRef' = MirrorAfterSet(stateRef, newState)
    /\ rawState' = newState
    /\ hLast' = [op |-> "setState", next |-> newState, pre |-> stateRef]
    /\ hPrev' = IF hDirty THEN Remembered(hLast) ELSE NoWrite
    /\ hDirty' = TRUE
    /\ UNCHANGED s
    /\ UNCHANGED notHelperVars

\* updateState(patch): setState({ ...stateRef.current, ...patch })
HelperUpdateState(patch) ==
    LET newState == SpreadMerge(UpdateBase(s, stateRef), patch)
    IN /\ stateRef' = MirrorAfterSet(stateRef, newState)
       /\ rawState' = newState
       /\ hLast' = [op |-> "updateState", patch |-> patch, pre |-> stateRef]
       /\ hPrev' = IF hDirty THEN Remembered(hLast) ELSE NoWrite
       /\ hDirty' = TRUE
       /\ UNCHANGED s
       /\ UNCHANGED notHelperVars

\* setItem(dictionaryName, key, value); no path of it throws
HelperSetItem(dictionaryName, key, value) ==
    LET newState == SetItemValue(stateRef, dictionaryName, key, value)
    IN /\ stateRef' = MirrorAfterSet(stateRef, newState)
       /\ rawState' = newState
       /\ hLast' = [op |-> "setItem", dict |-> dictionaryName, key |-> key,
                    value |-> value, pre |-> stateRef, threw |-> FALSE]
       /\ hPrev' = IF hDirty THEN Remembered(hLast) ELSE NoWrite
       /\ hDirty' = TRUE
       /\ UNCHANGED s
       /\ UNCHANGED notHelperVars

\* bind(fieldName).onChange(newVal); bind is createBinding(s, setState) of the
\* last render
HelperBindOnChange(fieldName, newVal) ==
    LET newState == BindingOnChangeValue(s, fieldName, newVal)
    IN /\ stateRef' = MirrorAfterSet(stateRef, newState)
       /\ rawState' = newState
       /\ hLast' = [op |-> "bind", field |-> fieldName, value |-> newVal,
                    pre |-> stateRef]
       /\ hPrev' = IF hDirty THEN Remembered(hLast) ELSE NoWrite
       /\ hDirty' = TRUE
       /\ UNCHANGED s
       /\ UNCHANGED notHelperVars

HelperNext ==
    \/ HelperRender
    \/ \E newState \in Records : HelperSetState(newState)
    \/ \E patch \in Patches : HelperUpdateState(patch)
    \/ \E key \in Keys, value \in Val : HelperSetItem("a", key, value)
    \/ \E fieldName \in Fields : \E newVal \in FieldVals(fieldName) :
           HelperBindOnChange(fieldName, newVal)

\* a component that also calls setItem on the field x, which holds a number
HelperUntypedNext ==
    \/ HelperRender
    \/ \E newState \in Records : HelperSetState(newState)
    \/ \E dictionaryName \in Fields, key \in Keys, value \in Val :
           HelperSetItem(dictionaryName, key, value)

(***************************************************************************)
(* useVuex                                                                 *)
(***************************************************************************)

\* the value a selector derives from a store state
Apply(selector, st) == IF selector = "selA" THEN st.a ELSE st.b

\* a useEffect without the dependency list: the effect is cleaned up and run
\* again after every re-render
EffectRerunsAlways(renderNo) == renderNo > 1

\* useEffect(..., []): the effect runs at mount only, its cleanup at unmount
EffectReruns(renderNo) == FALSE

\* a getter that calls the selector of the latest render
WatchedSelectorLatest(selectors) == selectors[Len(selectors)]

\* the effect that runs is the one of the first render, so the getter
\* () => selector() it hands to store.watch calls the first render's selector
WatchedSelector(selectors) == selectors[1]

\* store.watch(getter, cb): the watcher remembers the getter's current value
\* and does not call cb for it
Watch(selector, st) ==
    [active |-> TRUE, dirty |-> FALSE, value |-> Apply(selector, st)]

\* the unsubscribe function store.watch returned: the watcher is torn down,
\* a run still scheduled for it does nothing
Unwatch(w) == [w EXCEPT !.active = FALSE, !.dirty = FALSE]

\* an effect that returns no cleanup
CleanupUnsubscribesNot == FALSE

\* the effect returns the cleanup () => { unsubscribe(); }
CleanupUnsubscribes == TRUE

\* the cleanup calls unsubscribe() as it is, with no test and no try: calling
\* undefined is a TypeError, an error thrown by the handle leaves the cleanup
CleanupRaises(handle) == handle # "function"

VuexInit ==
    /\ store \in [StoreFields -> SVal]
    /\ watcher = NoWatcher
    /\ vPhase = "init"
    /\ vSelectors = << >>
    /\ vCell = NoVal
    /\ vState = NoVal
    /\ vSubs = 0
    /\ vUnsubs = 0
    /\ vCycle = 1
    /\ vHandle = "undefined"
    /\ vError = FALSE
    /\ vLateSet = FALSE
    /\ vLateMutation = FALSE

\* useVuex while another hook is studied
VuexIdle == VuexInit /\ store = [f \in StoreFields |-> 0]

\* one render of the component: the body of useVuex called with selector.
\* The first render initialises the state cell with selector(); the effect
\* of the first render is run by VuexMount.
VuexRender(selector) ==
    /\ vPhase \in {"init", "mounted"}
    /\ Len(vSelectors) < MaxRenders
    /\ LET renderNo == Len(vSelectors) + 1
           first == vPhase = "init"
           cell == IF first THEN Apply(selector, store) ELSE vCell
       IN /\ vCell' = cell
          /\ vState' = cell
          /\ vSelectors' = Append(vSelectors, selector)
          /\ vPhase' = IF first THEN "rendered" ELSE vPhase
          /\ IF EffectReruns(renderNo)
             THEN /\ watcher' = Watch(selector, store)
                  /\ vSubs' = vSubs + 1
                  /\ vUnsubs' = vUnsubs + 1
             ELSE UNCHANGED << watcher, vSubs, vUnsubs >>
    /\ UNCHANGED << store, vCycle, vHandle, vError, vLateSet, vLateMutation >>
    /\ UNCHANGED notVuexVars

\* the mount effect: store.watch(() => selector(), newState => setState(newState));
\* handle is what the store returns as `unsubscribe`
VuexMount(handle) ==
    /\ vPhase = "rendered"
    /\ vPhase' = "mounted"
    /\ watcher' = Watch(WatchedSelector(vSelectors), store)
    /\ vSubs' = vSubs + 1
    /\ vHandle' = handle
    /\ UNCHANGED << store, vSelectors, vCell, vState, vUnsubs, vCycle, vError,
                    vLateSet, vLateMutation >>
    /\ UNCHANGED notVuexVars

\* unmount: the effect's cleanup calls unsubscribe(). A working handle tears
\* the watcher down; a handle that throws was called but the watcher stays;
\* an undefined handle cannot be called at all
VuexUnmount ==
    /\ vPhase = "mounted"
    /\ vPhase' = "unmounted"
    /\ IF ~CleanupUnsubscribes
       THEN UNCHANGED << watcher, vUnsubs, vError >>
       ELSE /\ vError' = (vError \/ CleanupRaises(vHandle))
            /\ vUnsubs' = IF vHandle = "undefined" THEN vUnsubs ELSE vUnsubs + 1
            /\ watcher' = IF vHandle = "function" THEN Unwatch(watcher)
                          ELSE watcher
    /\ UNCHANGED << store, vSelectors, vCell, vState, vSubs, vCycle, vHandle,
                    vLateSet, vLateMutation >>
    /\ UNCHANGED notVuexVars

\* a new instance of the component is created after the previous one is gone
VuexRemount ==
    /\ vPhase = "unmounted"
    /\ vCycle < MaxCycles
    /\ vCycle' = vCycle + 1
    /\ vPhase' = "init"
    /\ vSelectors' = << >>
    /\ vCell' = NoVal
    /\ vState' = NoVal
    /\ vSubs' = 0
    /\ vUnsubs' = 0
    /\ watcher' = NoWatcher
    /\ vHandle' = "undefined"
    /\ vError' = FALSE
    /\ vLateSet' = FALSE
    /\ vLateMutation' = FALSE
    /\ UNCHANGED store
    /\ UNCHANGED notVuexVars

\* a mutation is committed to the store; a live watcher is scheduled to run
StoreMutate(field, v) ==
    /\ store[field] # v
    /\ store' = [store EXCEPT ![field] = v]
    /\ watcher' = IF watcher.active THEN [watcher EXCEPT !.dirty = TRUE]
                  ELSE watcher
    /\ vLateMutation' =
           \/ vLateMutation
           \/ /\ vPhase = "unmounted"
              /\ Apply(vSelectors[1], store') # Apply(vSelectors[1], store)
    /\ UNCHANGED << vPhase, vSelectors, vCell, vState, vSubs, vUnsubs, vCycle,
                    vHandle, vError, vLateSet >>
    /\ UNCHANGED notVuexVars

\* the scheduled run of the watcher: the getter is evaluated again and the
\* callback newState => setState(newState) is called if the value changed
WatcherRun ==
    /\ watcher.active
    /\ watcher.dirty
    /\ LET newState == Apply(WatchedSelector(vSelectors), store)
       IN /\ watcher' = [watcher EXCEPT !.dirty = FALSE, !.value = newState]
          /\ vCell' = IF newState # watcher.value
                      THEN ReactSet(vPhase, vCell, newState)
                      ELSE vCell
          /\ vLateSet' = (vLateSet \/
                             (newState # watcher.value /\ vPhase = "unmounted"))
    /\ UNCHANGED << store, vPhase, vSelectors, vState, vSubs, vUnsubs, vCycle,
                    vHandle, vError, vLateMutation >>
    /\ UNCHANGED notVuexVars

\* the store is a Vuex store: store.watch returns a working unsubscribe
VuexNext ==
    \/ \E selector \in Selectors : VuexRender(selector)
    \/ VuexMount("function")
    \/ VuexUnmount
    \/ VuexRemount
    \/ \E field \in StoreFields, v \in SVal : StoreMutate(field, v)
    \/ WatcherRun

\* a store whose watch API may hand back a broken unsubscribe handle
VuexFaultyNext ==
    \/ \E selector \in Selectors : VuexRender(selector)
    \/ \E handle \in Handles : VuexMount(handle)
    \/ VuexUnmount
    \/ VuexRemount
    \/ \E field \in StoreFields, v \in SVal : StoreMutate(field, v)
    \/ WatcherRun

(***************************************************************************)
(* useDebounce                                                             *)
(***************************************************************************)

\* debounce(cb, ms): a new wrapper with no call pending; cb is named by the
\* number of the render that passed it
Debounce(cb, ms) ==
    [cb |-> cb, ms |-> ms, pending |-> FALSE, lastArgs |-> NoVal, lastCall |-> 0]

\* a call of the wrapper: the arguments and the time are remembered and the
\* trailing invocation is (still) pending
Debounced(w, args, time) ==
    [w EXCEPT !.pending = TRUE, !.lastArgs = args, !.lastCall = time]

\* the wrapper's timer is due: ms have passed since its last call
Due(w, time) == w.pending /\ time - w.lastCall >= w.ms

AnyDue == \E i \in 1..Len(dWrappers) : Due(dWrappers[i], now)

AnyPending == \E i \in 1..Len(dWrappers) : dWrappers[i].pending

\* a hook that returns the wrapper built by the current render
ReturnedWrapperLatest(renderNo) == renderNo

\* useCallback(..., []): every render returns the function of the first render
ReturnedWrapper(renderNo) == 1

DebounceInit ==
    /\ now = 0
    /\ dWrappers = << >>
    /\ dReturned = 0
    /\ dInvoked = NoInvocation
    /\ dBurstArgs = << >>
    /\ dBurstInv = 0
    /\ dLastCall = 0
    /\ dCalls = 0

\* useDebounce while another hook is studied
DebounceIdle == DebounceInit

\* one render of the component: useDebounce(ms, cb) evaluates debounce(cb, ms)
\* and hands the new wrapper to useCallback
DebounceRender(ms) ==
    /\ ~AnyDue
    /\ Len(dWrappers) < MaxRenders
    /\ LET renderNo == Len(dWrappers) + 1
       IN /\ dWrappers' = Append(dWrappers, Debounce(renderNo, ms))
          /\ dReturned' = ReturnedWrapper(renderNo)
    /\ UNCHANGED << now, dInvoked, dBurstArgs, dBurstInv, dLastCall, dCalls >>
    /\ UNCHANGED notDebounceVars

\* the component calls the function the last render returned. The call
\* continues the burst when it comes less than the delay after the previous
\* call, the delay being the one passed on the first render.
DebounceCall(args) ==
    /\ ~AnyDue
    /\ dReturned > 0
    /\ dCalls < MaxCalls
    /\ dCalls' = dCalls + 1
    /\ dWrappers' = [dWrappers EXCEPT ![dReturned] = Debounced(@, args, now)]
    /\ dLastCall' = now
    /\ IF dBurstArgs # << >> /\ now - dLastCall < dWrappers[1].ms
       THEN /\ dBurstArgs' = Append(dBurstArgs, args)
            /\ UNCHANGED dBurstInv
       ELSE /\ dBurstArgs' = << args >>
            /\ dBurstInv' = 0
    /\ UNCHANGED << now, dReturned, dInvoked >>
    /\ UNCHANGED notDebounceVars

\* the timer of wrapper i fires: the trailing invocation cb(lastArgs)
DebounceTimer(i) ==
    /\ i \in 1..Len(dWrappers)
    /\ Due(dWrappers[i], now)
    /\ dWrappers' = [dWrappers EXCEPT ![i].pending = FALSE]
    /\ dInvoked' = [cb |-> dWrappers[i].cb, args |-> dWrappers[i].lastArgs]
    /\ dBurstInv' = dBurstInv + 1
    /\ UNCHANGED << now, dReturned, dBurstArgs, dLastCall, dCalls >>
    /\ UNCHANGED notDebounceVars

\* time passes; a timer that is due fires before the clock moves on
DebounceTick ==
    /\ ~AnyDue
    /\ now < MaxTime
    /\ now' = now + 1
    /\ UNCHANGED << dWrappers, dReturned, dInvoked, dBurstArgs, dBurstInv,
                    dLastCall, dCalls >>
    /\ UNCHANGED notDebounceVars

DebounceNext ==
    \/ \E ms \in Delays : DebounceRender(ms)
    \/ \E args \in DArgs : DebounceCall(args)
    \/ \E i \in 1..MaxRenders : DebounceTimer(i)
    \/ DebounceTick

(***************************************************************************)
(* useVuex: the two call shapes side by side                               *)
(***************************************************************************)

\* the arguments of useVuex for the derived value g of the target:
\* useVuex(() => g(target)) or useVuex(target, g). A function argument is
\* bound when it needs no argument to be called
CallArgs(shape, g) ==
    IF shape = "selectorOnly"
    THEN << [kind |-> "fn", g |-> g, bound |-> TRUE] >>
    ELSE << Target, [kind |-> "fn", g |-> g, bound |-> FALSE] >>

\* a useVuex that takes its last argument as the selector, as it is
SelectorOfArgsUnbound(args) == args[Len(args)]

\* args.length === 1 ? args[0] : () => args[1](args[0])
SelectorOfArgs(args) ==
    IF Len(args) = 1 THEN args[1]
    ELSE [kind |-> "fn", g |-> args[2].g, bound |-> args[1] = Target]

\* selector(): a function that still expects its target gets undefined
Call(selector, st) ==
    IF selector.bound THEN Apply(selector.g, st) ELSE NoVal

NoComponent ==
    [phase |-> "init", renders |-> 0, selector |-> Target, cell |-> NoVal,
     state |-> NoVal, initial |-> NoVal, watcher |-> NoWatcher, subs |-> 0,
     unsubs |-> 0]

\* one render of a component: the body of useVuex(...args)
TwinRenderStep(c, args, st) ==
    IF c.phase = "init"
    THEN [c EXCEPT !.phase = "rendered", !.renders = 1,
                   !.selector = SelectorOfArgs(args),
                   !.cell = Call(SelectorOfArgs(args), st),
                   !.state = Call(SelectorOfArgs(args), st),
                   !.initial = Call(SelectorOfArgs(args), st)]
    ELSE [c EXCEPT !.renders = @ + 1, !.state = c.cell]

\* the mount effect: store.watch(() => selector(), newState => setState(newState))
TwinMountStep(c, st) ==
    [c EXCEPT !.phase = "mounted", !.subs = @ + 1,
              !.watcher = [active |-> TRUE, dirty |-> FALSE,
                           value |-> Call(c.selector, st)]]

\* the cleanup of the effect: unsubscribe()
TwinUnmountStep(c) ==
    [c EXCEPT !.phase = "unmounted", !.unsubs = @ + 1,
              !.watcher = Unwatch(c.watcher)]

\* a store mutation schedules a live watcher
TwinMutateStep(c) ==
    IF c.watcher.active THEN [c EXCEPT !.watcher.dirty = TRUE] ELSE c

\* the scheduled run of the component's watcher
TwinRunStep(c, st) ==
    IF c.watcher.active /\ c.watcher.dirty
    THEN [c EXCEPT !.watcher.dirty = FALSE,
                   !.watcher.value = Call(c.selector, st),
                   !.cell = IF Call(c.selector, st) # c.watcher.value
                            THEN ReactSet(c.phase, c.cell, Call(c.selector, st))
                            ELSE c.cell]
    ELSE c

TwinInit ==
    /\ twin = [shape \in CallShapes |-> NoComponent]

TwinIdle == TwinInit

\* both components render, each with its own call shape for the same g
TwinRender(g) ==
    /\ \A shape \in CallShapes :
           /\ twin[shape].phase \in {"init", "mounted"}
           /\ twin[shape].renders < MaxRenders
    /\ twin' = [shape \in CallShapes |->
                   TwinRenderStep(twin[shape], CallArgs(shape, g), store)]
    /\ UNCHANGED store
    /\ UNCHANGED notTwinVars

TwinMount ==
    /\ \A shape \in CallShapes : twin[shape].phase = "rendered"
    /\ twin' = [shape \in CallShapes |-> TwinMountStep(twin[shape], store)]
    /\ UNCHANGED store
    /\ UNCHANGED notTwinVars

TwinUnmount ==
    /\ \A shape \in CallShapes : twin[shape].phase = "mounted"
    /\ twin' = [shape \in CallShapes |-> TwinUnmountStep(twin[shape])]
    /\ UNCHANGED store
    /\ UNCHANGED notTwinVars

TwinMutate(field, v) ==
    /\ store[field] # v
    /\ store' = [store EXCEPT ![field] = v]
    /\ twin' = [shape \in CallShapes |-> TwinMutateStep(twin[shape])]
    /\ UNCHANGED notTwinVars

TwinWatcherRun ==
    /\ \E shape \in CallShapes :
           twin[shape].watcher.active /\ twin[shape].watcher.dirty
    /\ twin' = [shape \in CallShapes |-> TwinRunStep(twin[shape], store)]
    /\ UNCHANGED store
    /\ UNCHANGED notTwinVars

TwinNext ==
    \/ \E g \in Selectors : TwinRender(g)
    \/ TwinMount
    \/ TwinUnmount
    \/ \E field \in StoreFields, v \in SVal : TwinMutate(field, v)
    \/ TwinWatcherRun

(***************************************************************************)
(* RecordingHistoryController.handleSelect                                 *)
(***************************************************************************)

\* postError(message): the notification pushed to NotificationsService
Warning(message) ==
    [message |-> message, type |-> "WARNING", lifeTime |-> WarningLifeTime]

\* a handleSelect without the return after postError
HandleSelectEffectsNoReturn(uploading, platform, hasSLID) ==
    (IF uploading THEN << "warning" >> ELSE << >>) \o
    (IF platform = "youtube" THEN << "youtube" >>
     ELSE IF hasSLID THEN << "storage" >> ELSE << "modal" >>)

\* what handleSelect(filename, platform) does, in order: postError,
\* uploadToYoutube, uploadToStorage or store.setState(showSLIDModal = true)
HandleSelectEffects(uploading, platform, hasSLID) ==
    IF uploading THEN << "warning" >>
    ELSE IF platform = "youtube" THEN << "youtube" >>
    ELSE IF hasSLID THEN << "storage" >>
    ELSE << "modal" >>

Has(effects, e) == \E i \in DOMAIN effects : effects[i] = e

RecordingInit ==
    /\ rUploading = FALSE
    /\ rHasSLID \in BOOLEAN
    /\ rShowSLIDModal = FALSE
    /\ rNotices = << >>
    /\ rUploads = << >>
    /\ rLast = NoSelect

\* the controller while a hook is studied
RecordingIdle == RecordingInit /\ rHasSLID = FALSE

\* the user picks an upload option of a recording
RecordingHandleSelect(filename, platform) ==
    /\ Len(rNotices) + Len(rUploads) < MaxSelects
    /\ LET effects == HandleSelectEffects(rUploading, platform, rHasSLID)
       IN /\ rNotices' = IF Has(effects, "warning")
                         THEN Append(rNotices, Warning("Upload already in progress"))
                         ELSE rNotices
          /\ rUploads' =
                 (IF Has(effects, "youtube")
                  THEN Append(rUploads, [to |-> "youtube", filename |-> filename,
                                         platform |-> "youtube"])
                  ELSE rUploads) \o
                 (IF Has(effects, "storage")
                  THEN << [to |-> "storage", filename |-> filename,
                           platform |-> platform] >>
                  ELSE << >>)
          /\ rShowSLIDModal' = (rShowSLIDModal \/ Has(effects, "modal"))
    /\ rLast' = [op |-> "select", filename |-> filename, platform |-> platform,
                 uploading |-> rUploading, hasSLID |-> rHasSLID,
                 modal |-> rShowSLIDModal, notices |-> rNotices,
                 uploads |-> rUploads]
    /\ UNCHANGED << rUploading, rHasSLID >>
    /\ UNCHANGED notRecordingVars

\* RecordingModeService starts or ends an upload
RecordingUploadInfo(uploading) ==
    /\ uploading # rUploading
    /\ rUploading' = uploading
    /\ UNCHANGED << rHasSLID, rShowSLIDModal, rNotices, rUploads, rLast >>
    /\ UNCHANGED notRecordingVars

\* the user links or unlinks a Streamlabs ID
RecordingAuth(hasSLID) ==
    /\ hasSLID # rHasSLID
    /\ rHasSLID' = hasSLID
    /\ UNCHANGED << rUploading, rShowSLIDModal, rNotices, rUploads, rLast >>
    /\ UNCHANGED notRecordingVars

RecordingNext ==
    \/ \E filename \in Filenames, platform \in Platforms :
           RecordingHandleSelect(filename, platform)
    \/ \E uploading \in BOOLEAN : RecordingUploadInfo(uploading)
    \/ \E hasSLID \in BOOLEAN : RecordingAuth(hasSLID)

(***************************************************************************)
(* Specifications: one per hook                                            *)
(***************************************************************************)
InitAsync == AsyncInit /\ HelperIdle /\ VuexIdle /\ DebounceIdle /\ TwinIdle /\ RecordingIdle

SpecAsync == InitAsync /\ [][AsyncNext]_vars

InitHelper == HelperInit /\ AsyncIdle /\ VuexIdle /\ DebounceIdle /\ TwinIdle /\ RecordingIdle

SpecHelper == InitHelper /\ [][HelperNext]_vars

SpecHelperUntyped == InitHelper /\ [][HelperUntypedNext]_vars

InitVuex == VuexInit /\ AsyncIdle /\ HelperIdle /\ DebounceIdle /\ TwinIdle /\ RecordingIdle

SpecVuex == InitVuex /\ [][VuexNext]_vars

SpecVuexFaulty == InitVuex /\ [][VuexFaultyNext]_vars

InitTwin ==
    /\ TwinInit
    /\ VuexInit
    /\ AsyncIdle
    /\ HelperIdle
    /\ DebounceIdle
    /\ RecordingIdle

SpecVuexShapes == InitTwin /\ [][TwinNext]_vars

InitDebounce == DebounceInit /\ AsyncIdle /\ HelperIdle /\ VuexIdle /\ TwinIdle /\ RecordingIdle

SpecDebounce == InitDebounce /\ [][DebounceNext]_vars

InitRecording ==
    /\ RecordingInit
    /\ AsyncIdle
    /\ HelperIdle
    /\ VuexIdle
    /\ DebounceIdle
    /\ TwinIdle

SpecRecording == InitRecording /\ [][RecordingNext]_vars

(***************************************************************************)
(* Properties of useAsyncState                                             *)
(***************************************************************************)

\* C1: when the component unmounts before asyncCb's promise resolves, the
\* .then callback never calls the setter, the handle does not carry the
\* result, and the held state is the original default (the interleavings of
\* the claim are those of render, unmount and resolution, so the state part
\* is stated for a component that did not write through the setter itself).
C1_UnmountDiscardsResult ==
    (aLateResolve /\ aInner = "fulfilled") =>
        /\ aThenSets = 0
        /\ aHandle \in {"pending", "fulfilledNull"}
        /\ aUserWrites = 0 => (aCell = aDefault /\ aState = aDefault)

\* C1 witness: re-rendered, unmounted, then resolved with a value other than
\* the default, and the .then callback has run
C1_Witness ==
    /\ aLateResolve
    /\ aHandle = "fulfilledNull"
    /\ Len(aIsDestroyed) >= 2
    /\ aUserWrites = 0
    /\ aInnerValue # aDefault

\* C7: a supplied asyncCb is invoked exactly once per component, with the
\* default of the first render, however often the component re-renders;
\* without asyncCb nothing is invoked and the handle is undefined.
C7_InitializerOnce ==
    aPhase # "init" =>
        IF aHasCb
        THEN aCbInputs = << aDefault >> /\ aHandle # "undefined"
        ELSE aCbInputs = << >> /\ aHandle = "undefined"

\* C7 witness: asyncCb supplied, the state was replaced by another value and
\* the component re-rendered with it twice
C7_Witness ==
    /\ aHasCb
    /\ Len(aIsDestroyed) >= 3
    /\ aState # aDefault

\* C8: when asyncCb's promise rejects, the handle rejects too (once the
\* microtask has run) and the .then callback changes no state.
C8_RejectionPropagates ==
    aInner = "rejected" =>
        /\ aHandle \in {"pending", "rejected"}
        /\ aThenSets = 0
        /\ aUserWrites = 0 => aCell = aDefault

\* C8 witness: a mounted component whose handle has rejected
C8_Witness ==
    /\ aInner = "rejected"
    /\ aHandle = "rejected"
    /\ aPhase = "mounted"

(***************************************************************************)
(* Properties of useStateHelper                                            *)
(***************************************************************************)

\* C2: updateState(q) and then updateState(p) with no re-render in between
\* commit the original record with q and then p merged in: every field has
\* the value of p if p sets it, else of q if q sets it, else the original.
C2_NoLostUpdate ==
    (hPrev.op = "updateState" /\ hLast.op = "updateState") =>
        /\ rawState = stateRef
        /\ DOMAIN stateRef = Fields
        /\ \A f \in Fields :
               stateRef[f] = IF f \in DOMAIN hLast.patch THEN hLast.patch[f]
                             ELSE IF f \in DOMAIN hPrev.patch THEN hPrev.patch[f]
                             ELSE hPrev.pre[f]

\* C2 witness: q and p set different fields, both to new values, and the
\* component has not re-rendered since before q
C2_Witness ==
    /\ hPrev.op = "updateState"
    /\ hLast.op = "updateState"
    /\ DOMAIN hPrev.patch = {"a"}
    /\ DOMAIN hLast.patch = {"x"}
    /\ hPrev.patch["a"] # hPrev.pre["a"]
    /\ hLast.patch["x"] # hPrev.pre["x"]
    /\ s = hPrev.pre

\* C5: stateRef.current is the value handed to the state cell by the most
\* recent write (for setState, its argument), also while the component has
\* not yet re-rendered with it.
C5_MirrorIsLastWrite ==
    /\ stateRef = rawState
    /\ hLast.op = "setState" => stateRef = hLast.next

\* C5 witness: a setState whose value has not been rendered yet
C5_Witness ==
    /\ hLast.op = "setState"
    /\ hDirty
    /\ s # hLast.next
    /\ hLast.pre # hLast.next

\* C6: bind(x).onChange(v) commits what updateState({x: v}) commits from the
\* same state: x is v and every other field keeps its value from the mirror.
C6_BindIsUpdateState ==
    hLast.op = "bind" =>
        /\ rawState = stateRef
        /\ \A f \in Fields :
               stateRef[f] = IF f = hLast.field THEN hLast.value
                             ELSE hLast.pre[f]

\* C9: setItem(a, k, v) on a record-valued field a commits a state with
\* a[k] = v, the other keys of a and the other fields as in the mirror.
C9_SetItemFrame ==
    (hLast.op = "setItem" /\ IsObject(hLast.pre[hLast.dict])) =>
        /\ rawState = stateRef
        /\ DOMAIN stateRef = Fields
        /\ DOMAIN stateRef[hLast.dict] = DOMAIN hLast.pre[hLast.dict]
        /\ stateRef[hLast.dict][hLast.key] = hLast.value
        /\ \A k \in DOMAIN hLast.pre[hLast.dict] \ {hLast.key} :
               stateRef[hLast.dict][k] = hLast.pre[hLast.dict][k]
        /\ \A f \in Fields \ {hLast.dict} : stateRef[f] = hLast.pre[f]

\* C9 witness: setItem changes an entry of a mirror that differs from the
\* rendered state in the other entry and in the other field
C9_Witness ==
    /\ hLast.op = "setItem"
    /\ hLast.dict = "a"
    /\ hLast.key = "k1"
    /\ hLast.value # hLast.pre["a"]["k1"]
    /\ hLast.pre["a"]["k2"] # s["a"]["k2"]
    /\ hLast.pre["x"] # s["x"]

(***************************************************************************)
(* Properties of useVuex                                                   *)
(***************************************************************************)

\* C3: in every mount/unmount cycle unsubscribe is called exactly once: not
\* while the component is mounted, and once when it has unmounted, for one
\* call of store.watch.
C3_UnsubscribeOnce ==
    /\ vPhase \in {"init", "rendered"} => (vSubs = 0 /\ vUnsubs = 0)
    /\ vPhase = "mounted" => (vSubs = 1 /\ vUnsubs = 0 /\ watcher.active)
    /\ vPhase = "unmounted" => (vSubs = 1 /\ vUnsubs = 1 /\ ~watcher.active)

\* C3 witness: the second instance has unmounted after it was notified of a
\* store mutation and re-rendered with the new value
C3_Witness ==
    /\ vCycle = 2
    /\ vPhase = "unmounted"
    /\ Len(vSelectors) >= 2
    /\ vState # Apply(vSelectors[1], [f \in StoreFields |-> 0])
    /\ store = [f \in StoreFields |-> 1]

\* C4: whenever the component is mounted and no watcher run is outstanding,
\* the held value is the selector evaluated on the current store state,
\* also when the store was mutated between the first render and the mount
\* effect.
C4_ReflectsStore ==
    (vPhase = "mounted" /\ ~watcher.dirty) =>
        vCell = Apply(vSelectors[1], store)

(***************************************************************************)
(* Properties of useDebounce                                               *)
(***************************************************************************)

\* C10: a burst of N >= 1 calls, each less than the delay after the previous
\* one, produces exactly one downstream invocation, with the argument of the
\* last call: none while the burst is still pending, one once it is over.
C10_OneTrailingInvocation ==
    dBurstArgs # << >> =>
        IF AnyPending
        THEN dBurstInv = 0
        ELSE /\ dBurstInv = 1
             /\ dInvoked.args = dBurstArgs[Len(dBurstArgs)]

\* C10 witness: a burst of three calls made at different times, with a
\* re-render in between, has been invoked with the last argument, which is
\* not the first
C10_Witness ==
    /\ Len(dBurstArgs) >= 3
    /\ dBurstInv = 1
    /\ Len(dWrappers) >= 2
    /\ dBurstArgs[1] # dBurstArgs[Len(dBurstArgs)]
    /\ dLastCall >= 1

\* C11: once the component has unmounted, the watcher callback never calls
\* the setter, whatever the order of the store mutations and the unmount.
C11_NoUpdateAfterUnmount ==
    /\ ~vLateSet
    /\ vPhase = "unmounted" => (~watcher.active /\ ~watcher.dirty)

\* C11 witness: the watched value was changed in the store after the unmount
\* and the component still holds the old value
C11_Witness ==
    /\ vPhase = "unmounted"
    /\ vLateMutation
    /\ ~vLateSet
    /\ vCell # Apply(vSelectors[1], store)
    /\ Len(vSelectors) >= 2

\* C12: with a broken unsubscribe handle (one that throws, or undefined) the
\* unmount raises no error.
C12_BrokenHandleTolerated ==
    (vPhase = "unmounted" /\ vHandle # "function") => ~vError

\* C13: setItem on a field that does not hold a record throws and leaves the
\* state and the mirror as they were.
C13_SetItemRejectsNonRecord ==
    (hLast.op = "setItem" /\ ~IsObject(hLast.pre[hLast.dict])) =>
        /\ hLast.threw
        /\ stateRef = hLast.pre
        /\ rawState = hLast.pre

\* what a component shows of useVuex: its lifecycle, the held and the
\* returned value, and its subscribe and unsubscribe calls
Observable(c) ==
    << c.phase, c.cell, c.state, c.subs, c.unsubs, c.watcher.active >>

\* C14: a component that calls useVuex(() => g(target)) and one that calls
\* useVuex(target, g) hold the same values and make the same subscribe and
\* unsubscribe calls under the same renders, store mutations and unmount.
C14_CallShapesAgree ==
    Observable(twin["selectorOnly"]) = Observable(twin["targetSelector"])

\* C14 witness: the target-plus-selector component was notified of a store
\* mutation, re-rendered with the new value and has unmounted
C14_Witness ==
    /\ twin["targetSelector"].phase = "unmounted"
    /\ twin["targetSelector"].renders >= 2
    /\ twin["targetSelector"].initial \in SVal
    /\ twin["targetSelector"].state \in SVal
    /\ twin["targetSelector"].state # twin["targetSelector"].initial
    /\ twin["targetSelector"].unsubs = 1

\* C15: every render returns the same wrapped function, and the component
\* builds one debounced wrapper in its lifetime, not one per render.
C15_WrapperBuiltOnce ==
    /\ dReturned <= 1
    /\ Len(dWrappers) <= 1

\* C18: every downstream invocation calls the callback of the first render,
\* and it is made when the delay of the first render has passed since the
\* last call; the callbacks and delays of later renders are not used.
C18_FirstCallbackOnly ==
    [][dBurstInv' = dBurstInv + 1 =>
          /\ dInvoked'.cb = 1
          /\ now - dLastCall = dWrappers[1].ms]_vars

\* C18 witness: the component has rendered three times, with another delay
\* on the second render than on the first, and a burst made at two different
\* times has been invoked
C18_Witness ==
    /\ Len(dWrappers) = 3
    /\ dWrappers[2].ms # dWrappers[1].ms
    /\ Len(dBurstArgs) >= 2
    /\ dLastCall >= 1
    /\ dBurstInv = 1
    /\ dInvoked.cb = 1

\* C16: when the .then callback runs for a fulfilled asyncCb promise, a
\* component that is still mounted gets the result as its state, whatever
\* the state was, and the handle resolves to the result; a component that
\* has unmounted keeps its state and the handle resolves to null.
C16_ResultReplacesState ==
    [][(aInner = "fulfilled" /\ aHandle = "pending" /\ aHandle' # "pending") =>
          IF aPhase = "unmounted"
          THEN /\ aHandle' = "fulfilledNull"
               /\ aCell' = aCell
               /\ aThenSets' = aThenSets
          ELSE /\ aHandle' = "fulfilled"
               /\ aHandleValue' = aInnerValue
               /\ aCell' = aInnerValue
               /\ aThenSets' = aThenSets + 1]_vars

\* C16 witness: the component wrote a value through the setter once and
\* rendered it; the result, another value, has replaced it since
C16_Witness ==
    /\ aUserWrites = 1
    /\ aState \notin {aDefault, aInnerValue}
    /\ aHandle = "fulfilled"
    /\ aHandleValue = aInnerValue
    /\ aCell = aInnerValue
    /\ aPhase = "mounted"

\* C17: the watcher evaluates the selector of the first render for as long as
\* it lives: its value is that selector's value of the store whenever no run
\* is outstanding, and a re-render, whatever selector it passes, leaves the
\* watcher and the held value alone and returns the held value.
C17_FirstSelectorKept ==
    /\ []((watcher.active /\ ~watcher.dirty) =>
              watcher.value = Apply(vSelectors[1], store))
    /\ [][(Len(vSelectors) >= 1 /\ Len(vSelectors') > Len(vSelectors)) =>
              /\ watcher' = watcher
              /\ vCell' = vCell
              /\ vState' = vCell]_vars

\* C17 witness: a mounted component re-rendered with another selector, whose
\* value of the store differs from the first selector's; the hook returns
\* the first selector's value
C17_Witness ==
    /\ vPhase = "mounted"
    /\ Len(vSelectors) = 3
    /\ vSelectors[2] # vSelectors[1]
    /\ vSelectors[3] # vSelectors[1]
    /\ ~watcher.dirty
    /\ Apply(vSelectors[1], store) # Apply(vSelectors[3], store)
    /\ watcher.value = Apply(vSelectors[1], store)
    /\ vState = Apply(vSelectors[1], store)

(***************************************************************************)
(* Properties of RecordingHistoryController                                *)
(***************************************************************************)

\* the uploads the most recent handleSelect started
StartedUploads == SubSeq(rUploads, Len(rLast.uploads) + 1, Len(rUploads))

\* the notifications the most recent handleSelect posted
PostedNotices == SubSeq(rNotices, Len(rLast.notices) + 1, Len(rNotices))

\* C19: handleSelect during an upload posts the 'Upload already in progress'
\* warning, starts no upload and leaves the SLID modal as it is; otherwise it
\* posts nothing and does exactly one of: start a YouTube upload (platform
\* youtube), start a storage upload (the user has an SLID), or set
\* showSLIDModal (no SLID) with no upload.
C19_HandleSelectOneOutcome ==
    rLast.op = "select" =>
        IF rLast.uploading
        THEN /\ Len(PostedNotices) = 1
             /\ PostedNotices[1].message = "Upload already in progress"
             /\ PostedNotices[1].type = "WARNING"
             /\ StartedUploads = << >>
             /\ rShowSLIDModal = rLast.modal
        ELSE /\ PostedNotices = << >>
             /\ IF rLast.platform = "youtube"
                THEN /\ Len(StartedUploads) = 1
                     /\ StartedUploads[1].to = "youtube"
                     /\ rShowSLIDModal = rLast.modal
                ELSE IF rLast.hasSLID
                THEN /\ Len(StartedUploads) = 1
                     /\ StartedUploads[1].to = "storage"
                     /\ StartedUploads[1].platform = rLast.platform
                     /\ rShowSLIDModal = rLast.modal
                ELSE /\ StartedUploads = << >>
                     /\ rShowSLIDModal

\* C19 witness: after a YouTube upload and a select without SLID that opened
\* the modal, a select made during an upload by a user with an SLID was
\* answered with the warning only
C19_Witness ==
    /\ rLast.op = "select"
    /\ rLast.uploading
    /\ rLast.hasSLID
    /\ rLast.platform # "youtube"
    /\ rShowSLIDModal
    /\ Len(rUploads) = 1
    /\ rUploads[1].to = "youtube"
    /\ Len(rNotices) = 1

====
